---- MODULE Spec2Model ----
(***************************************************************************)
(* A model of the Google AI adapter of langchaingo                         *)
(* (llms/googleai/googleai.go): one GenerateContent call from the start    *)
(* notification to its return, with the vendor SDK, the image downloader   *)
(* and the streaming callback as the environment, and the tool-schema      *)
(* translators as operators.                                               *)
(* SpecSchema runs the translators on their own; SpecConcurrent runs       *)
(* several calls on one adapter, interleaved step by step.                 *)
(*                                                                         *)
(* Strings are TLA+ strings; every text the environment supplies carries a *)
(* distinct letter, so that order and provenance show in the results.      *)
(* A nil pointer or nil map is a record [isNil |-> TRUE].                  *)
(***************************************************************************)
EXTENDS Integers, Sequences, FiniteSets, TLC

\* ------------------------------------------------------------------ bounds
MaxMsgs == 3
MaxEvents == 3
MaxStreamParts == 3
MaxCands == 2
MaxReplyParts == 3
MaxMsgParts == 2
MaxCalls == 2

VARIABLES
    \* inputs of the call and the behaviour of its collaborators
    messages,      \* []llms.MessageContent handed to GenerateContent
    handler,       \* g.CallbacksHandler != nil
    streaming,     \* opts.StreamingFunc != nil
    tools,         \* opts.Tools
    jsonMode,      \* opts.JSONMode
    mimeType,      \* opts.ResponseMIMEType
    fetchFails,    \* imageutil.DownloadImageData returns an error
    reply,         \* what the vendor answers to a blocking call
    stream,        \* the events the vendor's stream holds
    \* the call
    pc,            \* position of the call
    notes,         \* notifications the callbacks handler received, in order
    model,         \* the genai.GenerativeModel built for this call
    session,       \* request and history prepared for the vendor call
    vendor,        \* calls made to the vendor, in order
    fetches,       \* image URLs handed to the downloader, in order
    pos,           \* number of events pulled from the stream
    candidate,     \* the accumulator of convertAndStreamFromIterator
    cbLog,         \* chunks handed to opts.StreamingFunc, in order
    aborted,       \* opts.StreamingFunc returned an error
    result,        \* what GenerateContent returned
    \* the schema translators applied on their own
    jschema,       \* a *jsonschema.Schema
    params,        \* a map[string]any
    spc,           \* position of the translation run
    outStruct,     \* result of convertJSONSchemaDefinition(jschema)
    outMap,        \* result of convertMapToSchema(params)
    \* several calls on one adapter
    frames,        \* per call: its arguments, position, locals and result
    models,        \* the genai.GenerativeModel values the client has handed out
    accumulators   \* the accumulators of the running drains

inputVars == <<messages, handler, streaming, tools, jsonMode, mimeType, fetchFails,
               reply, stream>>
callVars == <<pc, notes, model, session, vendor, fetches, pos, candidate, cbLog,
              aborted, result>>
schemaVars == <<jschema, params, spc, outStruct, outMap>>
concurrentVars == <<frames, models, accumulators>>
vars == <<inputVars, callVars, schemaVars, concurrentVars>>

Letters == <<"A", "B", "C", "D", "E", "F", "G", "H", "I", "J", "K", "L", "M",
             "N", "O", "P", "Q", "R", "S", "T", "U", "V", "W", "X", "Y", "Z">>

\* ------------------------------------------------------------------ values
ErrNoContentInResponse == "no content in generation response"
ErrUnknownPartInResponse == "unknown part type in generation response"
RoleSystem == "system"
RoleModel == "model"
RoleUser == "user"
ResponseMIMETypeJson == "application/json"
CITATIONS == "citations"
SAFETY == "safety"

ChatMessageTypeAI == "ai"
ChatMessageTypeHuman == "human"
ChatMessageTypeSystem == "system"
ChatMessageTypeGeneric == "generic"
ChatMessageTypeFunction == "function"
ChatMessageTypeTool == "tool"

ErrRoleNotSupported == "role not supported"
ErrWantHuman == "got message role, want human"
ErrConflictingOptions == "conflicting options, can't use JSONMode and ResponseMIMEType together"
ErrStreamMode == "error in stream mode"
ErrSingleCandidate == "expect single candidate in stream mode"
ErrVendor == "vendor call failed"
ErrDownload == "image download failed"
ErrArgumentsJSON == "malformed tool call arguments"

NoResult == [kind |-> "none", err |-> "", choices |-> <<>>]
Failure(e) == [kind |-> "error", err |-> e, choices |-> <<>>]
Response(cs) == [kind |-> "ok", err |-> "", choices |-> cs]
Panic == [kind |-> "panic", err |-> "index out of range", choices |-> <<>>]

NilContent == [isNil |-> TRUE, Role |-> "", Parts |-> <<>>]
Content(role, parts) == [isNil |-> FALSE, Role |-> role, Parts |-> parts]

\* ------------------------------------------------------- schema translators
\* genai.Type
TypeUnspecified == "TypeUnspecified"
TypeString == "TypeString"
TypeNumber == "TypeNumber"
TypeInteger == "TypeInteger"
TypeBoolean == "TypeBoolean"
TypeArray == "TypeArray"
TypeObject == "TypeObject"

ErrTypeString == "expected string for type"
ErrDescriptionString == "expected string for description"
ErrNoProperties == "expected to find a map of properties"
ErrValueMap == "property: expect to find a value map"
ErrRequiredString == "expected string for required"

NilSchema == [isNil |-> TRUE]
NilProperties == [isNil |-> TRUE]
Properties(m) == [isNil |-> FALSE, m |-> m]
\* both a jsonschema.Schema (Type a string) and a genai.Schema (Type a genai.Type)
Schema(ty, desc, req, props, items) ==
    [isNil |-> FALSE, Type |-> ty, Description |-> desc, Required |-> req,
     Properties |-> props, Items |-> items]
\* &genai.Schema{}
ZeroSchema == Schema(TypeUnspecified, "", <<>>, NilProperties, NilSchema)

Translated(s) == [err |-> "", schema |-> s]
NotTranslated(e) == [err |-> e, schema |-> NilSchema]

\* values of a map[string]any, by dynamic type
Str(s) == [t |-> "string", v |-> s]
\* a number, a value that is no string, map or sequence
Num(n) == [t |-> "int", v |-> n]
MapV(m) == [t |-> "map[string]any", v |-> m]
Strs(q) == [t |-> "[]string", v |-> q]
Anys(q) == [t |-> "[]interface{}", v |-> q]
EmptyMap == [k \in {} |-> Str("")]

convertJSONSchemaType(dt) ==
    CASE dt = "object" -> TypeObject
      [] dt = "string" -> TypeString
      [] dt = "number" -> TypeNumber
      [] dt = "integer" -> TypeInteger
      [] dt = "boolean" -> TypeBoolean
      [] dt = "array" -> TypeArray
      [] OTHER -> TypeUnspecified

convertToolSchemaType(ty) ==
    CASE ty = "object" -> TypeObject
      [] ty = "string" -> TypeString
      [] ty = "number" -> TypeNumber
      [] ty = "integer" -> TypeInteger
      [] ty = "boolean" -> TypeBoolean
      [] ty = "array" -> TypeArray
      [] OTHER -> TypeUnspecified

RECURSIVE convertJSONSchemaDefinition(_)
convertJSONSchemaDefinition(js) ==
    LET names == IF js.Properties.isNil THEN {} ELSE DOMAIN js.Properties.m
        sub == [k \in names |-> convertJSONSchemaDefinition(js.Properties.m[k])]
        bad == {k \in names : sub[k].err # ""}
        items == IF js.Items.isNil THEN Translated(NilSchema)
                 ELSE convertJSONSchemaDefinition(js.Items)
    IN  IF bad # {} THEN NotTranslated(sub[CHOOSE k \in bad : TRUE].err)
        ELSE IF items.err # "" THEN NotTranslated(items.err)
        ELSE Translated(Schema(convertJSONSchemaType(js.Type), js.Description,
                               js.Required,
                               IF js.Properties.isNil THEN NilProperties
                               ELSE Properties([k \in names |-> sub[k].schema]),
                               items.schema))

\* the description of a property is not read
convertPropertyTypeOnly(propValue) ==
    IF propValue.t # "map[string]any" THEN NotTranslated(ErrValueMap)
    ELSE LET valueMap == propValue.v IN
         IF "type" \in DOMAIN valueMap /\ valueMap["type"].t # "string"
         THEN NotTranslated(ErrTypeString)
         ELSE Translated(Schema(
                IF "type" \in DOMAIN valueMap
                THEN convertToolSchemaType(valueMap["type"].v) ELSE TypeUnspecified,
                "", <<>>, NilProperties, NilSchema))

\* one round of the loop over paramProperties: the sub-schema of one property
convertProperty(propValue) ==
    IF propValue.t # "map[string]any" THEN NotTranslated(ErrValueMap)
    ELSE LET valueMap == propValue.v IN
         IF "type" \in DOMAIN valueMap /\ valueMap["type"].t # "string"
         THEN NotTranslated(ErrTypeString)
         ELSE IF "description" \in DOMAIN valueMap /\ valueMap["description"].t # "string"
         THEN NotTranslated(ErrDescriptionString)
         ELSE Translated(Schema(
                IF "type" \in DOMAIN valueMap
                THEN convertToolSchemaType(valueMap["type"].v) ELSE TypeUnspecified,
                IF "description" \in DOMAIN valueMap
                THEN valueMap["description"].v ELSE "",
                <<>>, NilProperties, NilSchema))

\* an element of an untyped sequence that is no string is left out
convertRequiredSkipping(required) ==
    IF required.t = "[]string" THEN [err |-> "", rs |-> required.v]
    ELSE IF required.t = "[]interface{}"
    THEN [err |-> "",
          rs |-> SelectSeq([i \in 1..Len(required.v) |->
                               IF required.v[i].t = "string" THEN required.v[i].v ELSE ""],
                           LAMBDA x : x # "")]
    ELSE [err |-> ErrRequiredString, rs |-> <<>>]

\* the "required" key of params
convertRequired(required) ==
    IF required.t = "[]string" THEN [err |-> "", rs |-> required.v]
    ELSE IF required.t = "[]interface{}"
    THEN IF \E i \in 1..Len(required.v) : required.v[i].t # "string"
         THEN [err |-> ErrRequiredString, rs |-> <<>>]
         ELSE [err |-> "", rs |-> [i \in 1..Len(required.v) |-> required.v[i].v]]
    ELSE [err |-> ErrRequiredString, rs |-> <<>>]

\* the ok of the type assertion is not looked at; a failed assertion leaves a nil map
propertiesOfUnchecked(ps) ==
    IF "properties" \in DOMAIN ps /\ ps["properties"].t = "map[string]any"
    THEN [ok |-> TRUE, m |-> ps["properties"].v]
    ELSE [ok |-> TRUE, m |-> EmptyMap]

\* paramProperties, ok := params["properties"].(map[string]any)
propertiesOf(ps) ==
    IF "properties" \in DOMAIN ps /\ ps["properties"].t = "map[string]any"
    THEN [ok |-> TRUE, m |-> ps["properties"].v]
    ELSE [ok |-> FALSE, m |-> EmptyMap]

\* The results convertMapToSchema can return. Go ranges over paramProperties in
\* an unspecified order and returns at the first property it cannot translate,
\* so with several such properties the error is that of any one of them.
convertMapToSchema(ps) ==
    IF "type" \in DOMAIN ps /\ ps["type"].t # "string"
    THEN {NotTranslated(ErrTypeString)}
    ELSE IF "description" \in DOMAIN ps /\ ps["description"].t # "string"
    THEN {NotTranslated(ErrDescriptionString)}
    ELSE IF ~propertiesOf(ps).ok
    THEN {NotTranslated(ErrNoProperties)}
    ELSE LET paramProperties == propertiesOf(ps).m
             sub == [k \in DOMAIN paramProperties |-> convertProperty(paramProperties[k])]
             bad == {k \in DOMAIN paramProperties : sub[k].err # ""}
             req == IF "required" \in DOMAIN ps THEN convertRequired(ps["required"])
                    ELSE [err |-> "", rs |-> <<>>]
         IN  IF bad # {} THEN {NotTranslated(sub[k].err) : k \in bad}
             ELSE IF req.err # "" THEN {NotTranslated(req.err)}
             ELSE {Translated(Schema(
                      IF "type" \in DOMAIN ps
                      THEN convertToolSchemaType(ps["type"].v) ELSE TypeUnspecified,
                      IF "description" \in DOMAIN ps THEN ps["description"].v ELSE "",
                      req.rs,
                      Properties([k \in DOMAIN paramProperties |-> sub[k].schema]),
                      NilSchema))}

ErrToolType == "unsupported type, want 'function'"
ErrParametersType == "unsupported type of Parameters"

\* tool.Function.Parameters by dynamic type: nil, *jsonschema.Schema,
\* map[string]any, or anything else
NoParameters == [form |-> "nil"]
SchemaParameters(js) == [form |-> "*jsonschema.Schema", v |-> js]
MapParameters(m) == [form |-> "map[string]any", v |-> m]
OtherParameters == [form |-> "string"]
Tool(ty, name, ps) == [Type |-> ty, Name |-> name, Parameters |-> ps]
FunctionDeclaration(name, schema) == [Name |-> name, Parameters |-> schema]

\* the results of translating one tool
convertTool(tool) ==
    IF tool.Type # "function" THEN {[err |-> ErrToolType, decl |-> FunctionDeclaration("", NilSchema)]}
    ELSE IF tool.Parameters.form = "nil"
    THEN {[err |-> "", decl |-> FunctionDeclaration(tool.Name, NilSchema)]}
    ELSE IF tool.Parameters.form = "*jsonschema.Schema"
    THEN LET r == convertJSONSchemaDefinition(tool.Parameters.v)
         IN  {[err |-> r.err, decl |-> FunctionDeclaration(tool.Name, r.schema)]}
    ELSE IF tool.Parameters.form = "map[string]any"
    THEN {[err |-> r.err, decl |-> FunctionDeclaration(tool.Name, r.schema)] :
             r \in convertMapToSchema(tool.Parameters.v)}
    ELSE {[err |-> ErrParametersType, decl |-> FunctionDeclaration("", NilSchema)]}

RECURSIVE convertToolsFrom(_, _)
convertToolsFrom(ts, genaiTools) ==
    IF Len(genaiTools) = Len(ts) THEN {[err |-> "", tools |-> genaiTools]}
    ELSE UNION {IF r.err # "" THEN {[err |-> r.err, tools |-> <<>>]}
                ELSE convertToolsFrom(ts, Append(genaiTools, r.decl)) :
                r \in convertTool(ts[Len(genaiTools) + 1])}

\* the results convertTools can return
convertTools(ts) == convertToolsFrom(ts, <<>>)

\* ------------------------------------------------------ message translation
\* llms.ContentPart: kind is the Go type, label the text, data, URL or name,
\* args the Arguments of a ToolCall
ContentPart(kind, label, args) == [kind |-> kind, label |-> label, args |-> args]
TextContent(l) == ContentPart("TextContent", l, "")
MessageContent(role, parts) == [Role |-> role, Parts |-> parts]
\* genai.Part
Part(kind, val) == [kind |-> kind, val |-> val]

\* json.Unmarshal([]byte(fc.Arguments), &argsMap) succeeds
ValidJSON(args) == args # "malformed"

RECURSIVE convertPartsFrom(_, _, _, _)
convertPartsFrom(parts, fails, convertedParts, fetched) ==
    IF Len(convertedParts) = Len(parts)
    THEN [err |-> "", parts |-> convertedParts, fetched |-> fetched]
    ELSE LET p == parts[Len(convertedParts) + 1] IN
         CASE p.kind = "TextContent" ->
                convertPartsFrom(parts, fails, Append(convertedParts, Part("Text", p.label)), fetched)
           [] p.kind = "BinaryContent" ->
                convertPartsFrom(parts, fails, Append(convertedParts, Part("Blob", p.label)), fetched)
           [] p.kind = "ImageURLContent" ->
                IF fails
                THEN [err |-> ErrDownload, parts |-> <<>>, fetched |-> Append(fetched, p.label)]
                ELSE convertPartsFrom(parts, fails, Append(convertedParts, Part("Blob", p.label)),
                                      Append(fetched, p.label))
           [] p.kind = "ToolCall" ->
                IF ~ValidJSON(p.args)
                THEN [err |-> ErrArgumentsJSON, parts |-> convertedParts, fetched |-> fetched]
                ELSE convertPartsFrom(parts, fails,
                                      Append(convertedParts, Part("FunctionCall", p.label)), fetched)
           [] p.kind = "ToolCallResponse" ->
                convertPartsFrom(parts, fails,
                                 Append(convertedParts, Part("FunctionResponse", p.label)), fetched)

\* fails: the image downloader returns an error; fetched: the URLs it was given
convertParts(parts, fails) == convertPartsFrom(parts, fails, <<>>, <<>>)

\* a role the switch does not know falls back to the user role
convertContentDefaultUser(content, fails) ==
    LET c == convertParts(content.Parts, fails) IN
    IF c.err # "" THEN [err |-> c.err, content |-> NilContent, fetched |-> c.fetched]
    ELSE CASE content.Role = ChatMessageTypeSystem ->
                [err |-> "", content |-> Content(RoleSystem, c.parts), fetched |-> c.fetched]
           [] content.Role = ChatMessageTypeAI ->
                [err |-> "", content |-> Content(RoleModel, c.parts), fetched |-> c.fetched]
           [] OTHER ->
                [err |-> "", content |-> Content(RoleUser, c.parts), fetched |-> c.fetched]

convertContent(content, fails) ==
    LET c == convertParts(content.Parts, fails) IN
    IF c.err # "" THEN [err |-> c.err, content |-> NilContent, fetched |-> c.fetched]
    ELSE CASE content.Role = ChatMessageTypeSystem ->
                [err |-> "", content |-> Content(RoleSystem, c.parts), fetched |-> c.fetched]
           [] content.Role = ChatMessageTypeAI ->
                [err |-> "", content |-> Content(RoleModel, c.parts), fetched |-> c.fetched]
           [] content.Role = ChatMessageTypeHuman ->
                [err |-> "", content |-> Content(RoleUser, c.parts), fetched |-> c.fetched]
           [] content.Role = ChatMessageTypeGeneric ->
                [err |-> "", content |-> Content(RoleUser, c.parts), fetched |-> c.fetched]
           [] content.Role = ChatMessageTypeTool ->
                [err |-> "", content |-> Content(RoleUser, c.parts), fetched |-> c.fetched]
           [] OTHER ->
                [err |-> ErrRoleNotSupported, content |-> NilContent, fetched |-> c.fetched]

\* the loop of generateFromMessages over the messages: history, the system
\* instruction it leaves in the model, and the URLs fetched on the way
RECURSIVE historyFrom(_, _, _, _, _, _)
historyFrom(msgs, i, fails, history, system, fetched) ==
    IF i > Len(msgs)
    THEN [err |-> "", history |-> history, system |-> system, fetched |-> fetched]
    ELSE LET mc == msgs[i]
             c == convertContent(mc, fails)
         IN  IF c.err # ""
             THEN [err |-> c.err, history |-> history, system |-> system,
                   fetched |-> fetched \o c.fetched]
             ELSE IF mc.Role = RoleSystem
             THEN historyFrom(msgs, i + 1, fails, history, c.content, fetched \o c.fetched)
             ELSE historyFrom(msgs, i + 1, fails, Append(history, c.content), system,
                              fetched \o c.fetched)

\* ---------------------------------------------------------- candidate merger
Candidate(content, finish, safety, citation, tokens) ==
    [Content |-> content, FinishReason |-> finish, SafetyRatings |-> safety,
     CitationMetadata |-> citation, TokenCount |-> tokens]
NoUsage == [isNil |-> TRUE]
UsageMetadata(n) == [isNil |-> FALSE, tokens |-> n]
\* json.Marshal(v.Args)
Marshal(args) == "{" \o args \o "}"
ToolCall(name, arguments) == [Name |-> name, Arguments |-> arguments]
ContentChoice(content, stop, info, calls) ==
    [Content |-> content, StopReason |-> stop, GenerationInfo |-> info, ToolCalls |-> calls]

\* the loop over candidate.Content.Parts: the text written to buf and the tool
\* calls appended to toolCalls
RECURSIVE mergeParts(_, _, _, _)
mergeParts(parts, j, buf, toolCalls) ==
    IF j > Len(parts) THEN [err |-> "", buf |-> buf, toolCalls |-> toolCalls]
    ELSE CASE parts[j].kind = "Text" ->
                mergeParts(parts, j + 1, buf \o parts[j].val, toolCalls)
           [] parts[j].kind = "FunctionCall" ->
                mergeParts(parts, j + 1, buf,
                           Append(toolCalls, ToolCall(parts[j].val, Marshal(parts[j].val))))
           [] OTHER -> [err |-> ErrUnknownPartInResponse, buf |-> buf, toolCalls |-> toolCalls]

\* toolCalls is declared once, before the loop over the candidates
RECURSIVE convertCandidatesFrom(_, _, _, _, _)
convertCandidatesFrom(candidates, i, usage, choices, toolCalls) ==
    IF i > Len(candidates) THEN Response(choices)
    ELSE LET cand == candidates[i]
             m == IF cand.Content.isNil
                  THEN [err |-> "", buf |-> "", toolCalls |-> toolCalls]
                  ELSE mergeParts(cand.Content.Parts, 1, "", toolCalls)
             metadata == [citations |-> cand.CitationMetadata,
                          safety |-> cand.SafetyRatings,
                          usage |-> usage]
         IN  IF m.err # "" THEN Failure(m.err)
             ELSE convertCandidatesFrom(candidates, i + 1, usage,
                      Append(choices, ContentChoice(m.buf, cand.FinishReason, metadata,
                                                    m.toolCalls)),
                      m.toolCalls)

convertCandidates(candidates, usage) ==
    convertCandidatesFrom(candidates, 1, usage, <<>>, <<>>)

\* -------------------------------------------------------------- environment
\* What the vendor sends. The part with running number n over a reply or a
\* stream carries the letter Letters[n]; candidate or event number k carries
\* role, finish reason, safety ratings and citations tagged with k and a token
\* count of k.
PartKinds == {"Text", "FunctionCall", "Blob"}
KindSeqs(budget) == UNION {[1..m -> PartKinds] : m \in 0..budget}
EnvContent(k, kinds, n) ==
    Content(<<"role", k>>, [j \in 1..Len(kinds) |-> Part(kinds[j], Letters[n + j - 1])])
EnvCandidate(k, content) ==
    Candidate(content, <<"finish", k>>, <<"safety", k>>, <<"citations", k>>, k)
EnvCandidates(k, n, budget) ==
    {EnvCandidate(k, NilContent)} \cup
    {EnvCandidate(k, EnvContent(k, kinds, n)) : kinds \in KindSeqs(budget)}
NParts(cand) == Len(cand.Content.Parts)

Event(cands) == [err |-> FALSE, candidates |-> cands]
ErrEvent == [err |-> TRUE, candidates |-> <<>>]
TextEvent(k, n) == Event(<<EnvCandidate(k, EnvContent(k, <<"Text">>, n))>>)
\* events with one candidate that has content
ContentEvents(k, n, budget) ==
    {Event(<<EnvCandidate(k, EnvContent(k, kinds, n))>>) : kinds \in KindSeqs(budget)}
\* events that end the loop: a failed pull, no candidate, two candidates, a
\* candidate without content
EndEvents(k, n) ==
    {ErrEvent, Event(<<>>),
     Event(<<EnvCandidate(k, EnvContent(k, <<>>, n)), EnvCandidate(k, EnvContent(k, <<>>, n))>>),
     Event(<<EnvCandidate(k, NilContent)>>)}
EventParts(e) == IF Len(e.candidates) = 1 THEN NParts(e.candidates[1]) ELSE 0

\* Streams of up to MaxEvents events with up to MaxStreamParts parts in all; an
\* event that ends the loop is the last one or is followed by one text event.
RECURSIVE StreamsFrom(_, _, _)
StreamsFrom(k, n, budget) ==
    {<<>>} \cup
    (IF k > MaxEvents THEN {}
     ELSE UNION {{<<e>> \o rest :
                    rest \in StreamsFrom(k + 1, n + EventParts(e), budget - EventParts(e))} :
                 e \in ContentEvents(k, n, budget)}
          \cup {<<e>> \o rest :
                    e \in EndEvents(k, n),
                    rest \in IF k < MaxEvents /\ budget > 0
                             THEN {<<>>, <<TextEvent(k + 1, n)>>} ELSE {<<>>}})
Streams == StreamsFrom(1, 1, MaxStreamParts)

RECURSIVE CandidateListsFrom(_, _, _)
CandidateListsFrom(k, n, budget) ==
    {<<>>} \cup
    (IF k > MaxCands THEN {}
     ELSE UNION {{<<c>> \o rest :
                    rest \in CandidateListsFrom(k + 1, n + NParts(c), budget - NParts(c))} :
                 c \in EnvCandidates(k, n, budget)})
Reply(cands) == [err |-> FALSE, candidates |-> cands, usage |-> UsageMetadata(Len(cands))]
ErrReply == [err |-> TRUE, candidates |-> <<>>, usage |-> NoUsage]
Replies == {ErrReply} \cup {Reply(cs) : cs \in CandidateListsFrom(1, 1, MaxReplyParts)}

DefaultReply == Reply(<<EnvCandidate(1, EnvContent(1, <<"Text">>, 1))>>)
EmptyReply == Reply(<<>>)
DefaultStream == <<TextEvent(1, 1), TextEvent(2, 2)>>

\* What the caller passes. Message number i carries the letter Letters[i] in
\* its parts.
Roles == {ChatMessageTypeSystem, ChatMessageTypeAI, ChatMessageTypeHuman,
          ChatMessageTypeGeneric, ChatMessageTypeTool, ChatMessageTypeFunction,
          "custom"}
TextMessage(role, i) == MessageContent(role, <<TextContent(Letters[i])>>)
RoleMessages ==
    UNION {{[i \in 1..n |-> TextMessage(rs[i], i)] : rs \in [1..n -> Roles]} : n \in 0..MaxMsgs}
DefaultMessages == <<TextMessage(ChatMessageTypeHuman, 1)>>
DefaultChat == <<TextMessage(ChatMessageTypeHuman, 1), TextMessage(ChatMessageTypeAI, 2),
                 TextMessage(ChatMessageTypeHuman, 3)>>

ContentParts(l) ==
    {TextContent(l), ContentPart("BinaryContent", l, ""), ContentPart("ImageURLContent", l, ""),
     ContentPart("ToolCall", l, "{}"), ContentPart("ToolCall", l, "malformed"),
     ContentPart("ToolCallResponse", l, "")}
PartSeqs(l) == UNION {[1..m -> ContentParts(l)] : m \in 0..MaxMsgParts}
PartMessages ==
    {<<MessageContent(r, ps)>> :
        r \in {ChatMessageTypeHuman, ChatMessageTypeAI}, ps \in PartSeqs("A")}
    \cup {<<MessageContent(r, ps), TextMessage(ChatMessageTypeHuman, 2)>> :
        r \in {ChatMessageTypeSystem, ChatMessageTypeAI, ChatMessageTypeFunction},
        ps \in PartSeqs("A")}

StringSchema == Schema("string", "a string", <<>>, NilProperties, NilSchema)
ObjectSchema == Schema("object", "an object", <<"p">>,
                       Properties([k \in {"p"} |-> StringSchema]), NilSchema)
ObjectMap == [k \in {"type", "properties"} |->
                IF k = "type" THEN Str("object")
                ELSE MapV([n \in {"p"} |-> MapV([t \in {"type"} |-> Str("string")])])]
NoPropertiesMap == [k \in {"type"} |-> Str("object")]
ToolLists ==
    {<<>>,
     <<Tool("function", "f", NoParameters)>>,
     <<Tool("retrieval", "f", NoParameters)>>,
     <<Tool("function", "f", OtherParameters)>>,
     <<Tool("function", "f", SchemaParameters(ObjectSchema))>>,
     <<Tool("function", "f", MapParameters(ObjectMap))>>,
     <<Tool("function", "f", MapParameters(NoPropertiesMap))>>,
     <<Tool("function", "f", MapParameters(ObjectMap)), Tool("code", "g", NoParameters)>>}

\* ------------------------------------------------------------------ the call
\* candidate := &genai.Candidate{Content: &genai.Content{}}
FreshCandidate == Candidate(Content("", <<>>), "", <<>>, <<>>, 0)
FreshModel == [Tools |-> <<>>, ResponseMIMEType |-> "", SystemInstruction |-> NilContent]
NoSession == [request |-> NilContent, history |-> <<>>]
VendorCall(op, parts, history, system) ==
    [op |-> op, parts |-> parts, history |-> history, system |-> system]

CallStart ==
    /\ pc = "start" /\ notes = <<>> /\ model = FreshModel /\ session = NoSession
    /\ vendor = <<>> /\ fetches = <<>> /\ pos = 0 /\ candidate = FreshCandidate
    /\ cbLog = <<>> /\ aborted = FALSE /\ result = NoResult
SchemaIdle ==
    /\ jschema = StringSchema /\ params = EmptyMap /\ spc = "idle"
    /\ outStruct = NotTranslated("") /\ outMap = NotTranslated("")
ConcurrentIdle == frames = <<>> /\ models = <<>> /\ accumulators = <<>>

\* every sequence of up to MaxMsgs messages over all the roles
InitRoles ==
    /\ messages \in RoleMessages
    /\ handler \in BOOLEAN /\ streaming \in BOOLEAN
    /\ tools = <<>> /\ jsonMode = FALSE /\ mimeType = "" /\ fetchFails = FALSE
    /\ reply \in IF streaming THEN {DefaultReply} ELSE {DefaultReply, EmptyReply}
    /\ stream = DefaultStream
\* every kind of content part, with the image downloader working or not
InitParts ==
    /\ messages \in PartMessages
    /\ handler = TRUE /\ streaming = FALSE
    /\ tools = <<>> /\ jsonMode = FALSE /\ mimeType = "" /\ fetchFails \in BOOLEAN
    /\ reply = DefaultReply /\ stream = DefaultStream
\* the call options
InitOptions ==
    /\ messages \in {DefaultMessages, DefaultChat}
    /\ handler \in BOOLEAN /\ streaming \in BOOLEAN
    /\ tools \in ToolLists /\ jsonMode \in BOOLEAN /\ mimeType \in {"", "text/plain"}
    /\ fetchFails = FALSE /\ reply = DefaultReply /\ stream = DefaultStream
\* every reply of the vendor to a blocking call
InitReply ==
    /\ messages \in {DefaultMessages, DefaultChat}
    /\ handler = TRUE /\ streaming = FALSE
    /\ tools = <<>> /\ jsonMode = FALSE /\ mimeType = "" /\ fetchFails = FALSE
    /\ reply \in Replies /\ stream = DefaultStream
\* every stream of the vendor
InitStream ==
    /\ messages \in {DefaultMessages, DefaultChat}
    /\ handler = TRUE /\ streaming = TRUE
    /\ tools = <<>> /\ jsonMode = FALSE /\ mimeType = "" /\ fetchFails = FALSE
    /\ reply = DefaultReply /\ stream \in Streams

Init ==
    /\ InitRoles \/ InitParts \/ InitOptions \/ InitReply \/ InitStream
    /\ CallStart
    /\ SchemaIdle
    /\ ConcurrentIdle

\* GenerateContent, lines 46-48
HandleLLMGenerateContentStart ==
    /\ pc = "start"
    /\ notes' = IF handler THEN Append(notes, "start") ELSE notes
    /\ pc' = "configure"
    /\ UNCHANGED <<inputVars, concurrentVars, schemaVars, model, session, vendor, fetches, pos, candidate,
                   cbLog, aborted, result>>

\* model.ResponseMIMEType after the switch of lines 93-100
responseMIMEType(genaiTools) ==
    IF mimeType # "" /\ ~jsonMode THEN mimeType
    ELSE IF mimeType = "" /\ jsonMode /\ Len(genaiTools) = 0 THEN ResponseMIMETypeJson
    ELSE ""

\* the case of the switch for JSONMode together with ResponseMIMEType is missing
configureModelWithoutConflict ==
    /\ pc = "configure"
    /\ \E t \in convertTools(tools) :
         IF t.err # ""
         THEN /\ result' = Failure(t.err) /\ pc' = "done" /\ model' = model
         ELSE /\ model' = [model EXCEPT !.Tools = t.tools,
                                        !.ResponseMIMEType = responseMIMEType(t.tools)]
              /\ pc' = "dispatch" /\ result' = result
    /\ UNCHANGED <<inputVars, concurrentVars, schemaVars, notes, session, vendor, fetches, pos, candidate,
                   cbLog, aborted>>

\* GenerateContent, lines 50-100: the model, its tools and its response MIME type
configureModel ==
    /\ pc = "configure"
    /\ \E t \in convertTools(tools) :
         IF t.err # ""
         THEN /\ result' = Failure(t.err) /\ pc' = "done" /\ model' = model
         ELSE IF mimeType # "" /\ jsonMode
         THEN /\ result' = Failure(ErrConflictingOptions) /\ pc' = "done"
              /\ model' = [model EXCEPT !.Tools = t.tools]
         ELSE /\ model' = [model EXCEPT !.Tools = t.tools,
                                        !.ResponseMIMEType = responseMIMEType(t.tools)]
              /\ pc' = "dispatch" /\ result' = result
    /\ UNCHANGED <<inputVars, concurrentVars, schemaVars, notes, session, vendor, fetches, pos, candidate,
                   cbLog, aborted>>

\* the role of a lone message is not looked at
dispatchAnyRole ==
    /\ pc = "dispatch"
    /\ pc' = IF Len(messages) = 1 THEN "single" ELSE "multi"
    /\ UNCHANGED <<inputVars, concurrentVars, schemaVars, notes, model, session, vendor, fetches, pos,
                   candidate, cbLog, aborted, result>>

\* GenerateContent, lines 104-112: one message or a chat
dispatch ==
    /\ pc = "dispatch"
    /\ IF Len(messages) = 1
       THEN IF messages[1].Role # ChatMessageTypeHuman
            THEN result' = Failure(ErrWantHuman) /\ pc' = "done"
            ELSE result' = result /\ pc' = "single"
       ELSE result' = result /\ pc' = "multi"
    /\ UNCHANGED <<inputVars, concurrentVars, schemaVars, notes, model, session, vendor, fetches, pos,
                   candidate, cbLog, aborted>>

\* generateFromSingleMessage, lines 259-262
generateFromSingleMessageParts ==
    /\ pc = "single"
    /\ LET c == convertParts(messages[1].Parts, fetchFails) IN
         /\ fetches' = fetches \o c.fetched
         /\ IF c.err # ""
            THEN result' = Failure(c.err) /\ pc' = "return" /\ session' = session
            ELSE /\ session' = [request |-> Content("", c.parts), history |-> <<>>]
                 /\ pc' = "call" /\ result' = result
    /\ UNCHANGED <<inputVars, concurrentVars, schemaVars, notes, model, vendor, pos, candidate, cbLog, aborted>>

\* generateFromMessages, lines 287-307
generateFromMessagesHistory ==
    /\ pc = "multi"
    /\ LET h == historyFrom(messages, 1, fetchFails, <<>>, model.SystemInstruction, <<>>)
           n == Len(h.history)
       IN
         /\ fetches' = fetches \o h.fetched
         /\ model' = [model EXCEPT !.SystemInstruction = h.system]
         /\ IF h.err # ""
            THEN result' = Failure(h.err) /\ pc' = "return" /\ session' = session
            ELSE IF n = 0
            THEN result' = Panic /\ pc' = "done" /\ session' = session
            ELSE /\ session' = [request |-> h.history[n], history |-> SubSeq(h.history, 1, n - 1)]
                 /\ pc' = "chat" /\ result' = result
    /\ UNCHANGED <<inputVars, concurrentVars, schemaVars, notes, vendor, pos, candidate, cbLog, aborted>>

\* generateFromSingleMessage, lines 268-275: the answer to a blocking call
generateFromSingleMessageResponse(resp) ==
    IF resp.err THEN Failure(ErrVendor)
    ELSE IF Len(resp.candidates) = 0 THEN Failure(ErrNoContentInResponse)
    ELSE convertCandidates(resp.candidates, resp.usage)

\* the candidates are merged without looking at their number
generateFromMessagesResponseUnchecked(resp) ==
    IF resp.err THEN Failure(ErrVendor)
    ELSE convertCandidates(resp.candidates, resp.usage)

\* generateFromMessages, lines 311-318: the answer to a blocking call
generateFromMessagesResponse(resp) ==
    IF resp.err THEN Failure(ErrVendor)
    ELSE IF Len(resp.candidates) = 0 THEN Failure(ErrNoContentInResponse)
    ELSE convertCandidates(resp.candidates, resp.usage)

\* generateFromSingleMessage, lines 264-278: the vendor call
generateFromSingleMessageCall ==
    /\ pc = "call"
    /\ IF ~streaming
       THEN /\ vendor' = Append(vendor, VendorCall("GenerateContent", session.request.Parts,
                                                   <<>>, model.SystemInstruction))
            /\ result' = generateFromSingleMessageResponse(reply)
            /\ pc' = "return"
       ELSE /\ vendor' = Append(vendor, VendorCall("GenerateContentStream",
                                                   session.request.Parts, <<>>,
                                                   model.SystemInstruction))
            /\ result' = result
            /\ pc' = "stream"
    /\ UNCHANGED <<inputVars, concurrentVars, schemaVars, notes, model, session, fetches, pos, candidate,
                   cbLog, aborted>>

\* generateFromMessages, lines 306-321: the vendor call
generateFromMessagesCall ==
    /\ pc = "chat"
    /\ IF ~streaming
       THEN /\ vendor' = Append(vendor, VendorCall("SendMessage", session.request.Parts,
                                                   session.history, model.SystemInstruction))
            /\ result' = generateFromMessagesResponse(reply)
            /\ pc' = "return"
       ELSE /\ vendor' = Append(vendor, VendorCall("SendMessageStream", session.request.Parts,
                                                   session.history, model.SystemInstruction))
            /\ result' = result
            /\ pc' = "stream"
    /\ UNCHANGED <<inputVars, concurrentVars, schemaVars, notes, model, session, fetches, pos, candidate,
                   cbLog, aborted>>

\* the text parts of a content, in order
RECURSIVE Texts(_)
Texts(parts) ==
    IF parts = <<>> THEN <<>>
    ELSE IF Head(parts).kind = "Text" THEN <<Head(parts).val>> \o Texts(Tail(parts))
    ELSE Texts(Tail(parts))

\* a plain break would leave only the loop over the parts
afterStreamingFuncErrorInnerBreak == "stream"
\* lines 364-366: break DoStream leaves the loop over the events
afterStreamingFuncError == "merge"

\* the check accepts any event that has a candidate
singleCandidateOrMore(resp) == Len(resp.candidates) >= 1
\* lines 347-349: the stream-shape check
singleCandidate(resp) == Len(resp.candidates) = 1

\* the event's parts replace the accumulated ones instead of being appended
accumulateOverwrite(acc, respCandidate) ==
    Candidate(Content(respCandidate.Content.Role, respCandidate.Content.Parts),
              respCandidate.FinishReason, respCandidate.SafetyRatings,
              respCandidate.CitationMetadata, acc.TokenCount + respCandidate.TokenCount)

\* the token count is overwritten like the other fields instead of added up
accumulateLatestTokenCount(acc, respCandidate) ==
    Candidate(Content(respCandidate.Content.Role,
                      acc.Content.Parts \o respCandidate.Content.Parts),
              respCandidate.FinishReason, respCandidate.SafetyRatings,
              respCandidate.CitationMetadata, respCandidate.TokenCount)

\* lines 355-360: one event's candidate added to the accumulator
accumulate(acc, respCandidate) ==
    Candidate(Content(respCandidate.Content.Role,
                      acc.Content.Parts \o respCandidate.Content.Parts),
              respCandidate.FinishReason, respCandidate.SafetyRatings,
              respCandidate.CitationMetadata, acc.TokenCount + respCandidate.TokenCount)

\* a candidate without content is an error like a missing candidate
streamNextContentRequired ==
    /\ pc = "stream"
    /\ IF pos = Len(stream)
       THEN /\ pc' = "merge"
            /\ UNCHANGED <<pos, candidate, cbLog, aborted, result>>
       ELSE LET resp == stream[pos + 1] IN
            /\ pos' = pos + 1
            /\ IF resp.err
               THEN /\ result' = Failure(ErrStreamMode) /\ pc' = "return"
                    /\ UNCHANGED <<candidate, cbLog, aborted>>
               ELSE IF ~singleCandidate(resp)
               THEN /\ result' = Failure(ErrSingleCandidate) /\ pc' = "return"
                    /\ UNCHANGED <<candidate, cbLog, aborted>>
               ELSE IF resp.candidates[1].Content.isNil
               THEN /\ result' = Failure(ErrNoContentInResponse) /\ pc' = "return"
                    /\ UNCHANGED <<candidate, cbLog, aborted>>
               ELSE LET texts == Texts(resp.candidates[1].Content.Parts) IN
                    /\ candidate' = accumulate(candidate, resp.candidates[1])
                    /\ result' = result
                    /\ \E a \in 0..Len(texts) :
                         IF a = 0
                         THEN /\ cbLog' = cbLog \o texts /\ aborted' = aborted
                              /\ pc' = "stream"
                         ELSE /\ cbLog' = cbLog \o SubSeq(texts, 1, a)
                              /\ aborted' = TRUE /\ pc' = afterStreamingFuncError
    /\ UNCHANGED <<inputVars, concurrentVars, schemaVars, notes, model, session, vendor, fetches>>

\* convertAndStreamFromIterator, lines 338-369: one round of the DoStream loop.
\* The streaming function returns an error at the a-th text part of the event,
\* or at none of them (a = 0).
streamNext ==
    /\ pc = "stream"
    /\ IF pos = Len(stream)
       THEN /\ pc' = "merge"
            /\ UNCHANGED <<pos, candidate, cbLog, aborted, result>>
       ELSE LET resp == stream[pos + 1] IN
            /\ pos' = pos + 1
            /\ IF resp.err
               THEN /\ result' = Failure(ErrStreamMode) /\ pc' = "return"
                    /\ UNCHANGED <<candidate, cbLog, aborted>>
               ELSE IF ~singleCandidate(resp)
               THEN /\ result' = Failure(ErrSingleCandidate) /\ pc' = "return"
                    /\ UNCHANGED <<candidate, cbLog, aborted>>
               ELSE IF resp.candidates[1].Content.isNil
               THEN /\ pc' = "merge"
                    /\ UNCHANGED <<candidate, cbLog, aborted, result>>
               ELSE LET texts == Texts(resp.candidates[1].Content.Parts) IN
                    /\ candidate' = accumulate(candidate, resp.candidates[1])
                    /\ result' = result
                    /\ \E a \in 0..Len(texts) :
                         IF a = 0
                         THEN /\ cbLog' = cbLog \o texts /\ aborted' = aborted
                              /\ pc' = "stream"
                         ELSE /\ cbLog' = cbLog \o SubSeq(texts, 1, a)
                              /\ aborted' = TRUE /\ pc' = afterStreamingFuncError
    /\ UNCHANGED <<inputVars, concurrentVars, schemaVars, notes, model, session, vendor, fetches>>

\* convertAndStreamFromIterator, lines 370-371. iter.MergedResponse() is taken
\* to return a response with usage metadata whatever was pulled.
streamMerge ==
    /\ pc = "merge"
    /\ result' = convertCandidates(<<candidate>>, UsageMetadata(pos))
    /\ pc' = "return"
    /\ UNCHANGED <<inputVars, concurrentVars, schemaVars, notes, model, session, vendor, fetches, pos,
                   candidate, cbLog, aborted>>

\* the handler is told of the end whether or not the call failed
HandleLLMGenerateContentEndAlways ==
    /\ pc = "return"
    /\ notes' = IF handler THEN Append(notes, "end") ELSE notes
    /\ pc' = "done"
    /\ UNCHANGED <<inputVars, concurrentVars, schemaVars, model, session, vendor, fetches, pos, candidate,
                   cbLog, aborted, result>>

\* GenerateContent, lines 113-121
HandleLLMGenerateContentEnd ==
    /\ pc = "return"
    /\ notes' = IF result.kind # "error" /\ handler THEN Append(notes, "end") ELSE notes
    /\ pc' = "done"
    /\ UNCHANGED <<inputVars, concurrentVars, schemaVars, model, session, vendor, fetches, pos, candidate,
                   cbLog, aborted, result>>

Next ==
    \/ HandleLLMGenerateContentStart
    \/ configureModel
    \/ dispatch
    \/ generateFromSingleMessageParts
    \/ generateFromSingleMessageCall
    \/ generateFromMessagesHistory
    \/ generateFromMessagesCall
    \/ streamNext
    \/ streamMerge
    \/ HandleLLMGenerateContentEnd

Spec == Init /\ [][Next]_vars

\* ------------------------------------------- several calls on one adapter
\* GenerateContent keeps everything it works on in locals: the model it asks
\* the client for, the chat session, the accumulator of the drain. A frame
\* holds the locals of one call; the models and the accumulators live in
\* slots, and modelOf and candidateOf say which slot a call works on.
CallIds == 1..MaxCalls

\* the adapter keeps one model, which every call configures anew
modelOfAdapter(c) == 1
\* model := g.client.GenerativeModel(opts.Model): a model of its own per call
modelOf(c) == c
\* candidate := &genai.Candidate{...}: an accumulator of its own per drain
candidateOf(c) == c

Frame(in) ==
    [in |-> in, pc |-> "configure", session |-> NoSession, pos |-> 0, cbLog |-> <<>>,
     seen |-> <<>>, result |-> NoResult]
Returned(f, r) == [f EXCEPT !.pc = "done", !.result = r]

\* lines 62-90: the model and its tools
stepConfigure(f, m, cand) ==
    LET t == CHOOSE t \in convertTools(f.in.tools) : TRUE IN
    IF t.err # ""
    THEN [frame |-> Returned(f, Failure(t.err)), model |-> FreshModel, candidate |-> cand]
    ELSE [frame |-> [f EXCEPT !.pc = "translate"],
          model |-> [FreshModel EXCEPT !.Tools = t.tools], candidate |-> cand]

\* lines 104-112, 259-262 and 287-307: the messages become a request
stepTranslate(f, m, cand) ==
    IF Len(f.in.messages) = 1
    THEN IF f.in.messages[1].Role # ChatMessageTypeHuman
         THEN [frame |-> Returned(f, Failure(ErrWantHuman)), model |-> m, candidate |-> cand]
         ELSE LET c == convertParts(f.in.messages[1].Parts, FALSE) IN
              IF c.err # ""
              THEN [frame |-> Returned(f, Failure(c.err)), model |-> m, candidate |-> cand]
              ELSE [frame |-> [f EXCEPT !.pc = "call",
                                        !.session = [request |-> Content("", c.parts),
                                                     history |-> <<>>]],
                    model |-> m, candidate |-> cand]
    ELSE LET h == historyFrom(f.in.messages, 1, FALSE, <<>>, m.SystemInstruction, <<>>)
             n == Len(h.history)
             m2 == [m EXCEPT !.SystemInstruction = h.system]
         IN  IF h.err # ""
             THEN [frame |-> Returned(f, Failure(h.err)), model |-> m2, candidate |-> cand]
             ELSE IF n = 0
             THEN [frame |-> Returned(f, Panic), model |-> m2, candidate |-> cand]
             ELSE [frame |-> [f EXCEPT !.pc = "call",
                                       !.session = [request |-> h.history[n],
                                                    history |-> SubSeq(h.history, 1, n - 1)]],
                   model |-> m2, candidate |-> cand]

\* lines 264-278 and 306-321: the vendor is called with the model as it is now
stepCall(f, m, cand) ==
    LET single == Len(f.in.messages) = 1
        op == IF single
              THEN IF f.in.streaming THEN "GenerateContentStream" ELSE "GenerateContent"
              ELSE IF f.in.streaming THEN "SendMessageStream" ELSE "SendMessage"
        sent == [call |-> VendorCall(op, f.session.request.Parts, f.session.history,
                                     m.SystemInstruction),
                 Tools |-> m.Tools]
        g == [f EXCEPT !.seen = Append(f.seen, sent)]
    IN  IF ~f.in.streaming
        THEN [frame |-> Returned(g, IF single THEN generateFromSingleMessageResponse(f.in.reply)
                                    ELSE generateFromMessagesResponse(f.in.reply)),
              model |-> m, candidate |-> cand]
        ELSE [frame |-> [g EXCEPT !.pc = "stream"], model |-> m, candidate |-> FreshCandidate]

\* lines 338-369: one round of the DoStream loop, the streaming function
\* returning no error
stepStream(f, m, cand) ==
    IF f.pos = Len(f.in.stream)
    THEN [frame |-> [f EXCEPT !.pc = "merge"], model |-> m, candidate |-> cand]
    ELSE LET resp == f.in.stream[f.pos + 1]
             g == [f EXCEPT !.pos = f.pos + 1]
         IN  IF resp.err
             THEN [frame |-> Returned(g, Failure(ErrStreamMode)), model |-> m,
                   candidate |-> cand]
             ELSE IF ~singleCandidate(resp)
             THEN [frame |-> Returned(g, Failure(ErrSingleCandidate)), model |-> m,
                   candidate |-> cand]
             ELSE IF resp.candidates[1].Content.isNil
             THEN [frame |-> [g EXCEPT !.pc = "merge"], model |-> m, candidate |-> cand]
             ELSE [frame |-> [g EXCEPT !.cbLog =
                                 f.cbLog \o Texts(resp.candidates[1].Content.Parts)],
                   model |-> m,
                   candidate |-> accumulate(cand, resp.candidates[1])]

\* lines 370-371
stepMerge(f, m, cand) ==
    [frame |-> Returned(f, convertCandidates(<<cand>>, UsageMetadata(f.pos))),
     model |-> m, candidate |-> cand]

\* the next step of a call that has not returned
callStep(f, m, cand) ==
    CASE f.pc = "configure" -> stepConfigure(f, m, cand)
      [] f.pc = "translate" -> stepTranslate(f, m, cand)
      [] f.pc = "call" -> stepCall(f, m, cand)
      [] f.pc = "stream" -> stepStream(f, m, cand)
      [] f.pc = "merge" -> stepMerge(f, m, cand)

\* What the callers pass and the vendor answers: call c has messages, events
\* and letters of its own.
CallMessage(c, role, i) == TextMessage(role, 3 * (c - 1) + i)
CallStream(c) == <<TextEvent(2 * c - 1, 2 * c - 1), TextEvent(2 * c, 2 * c)>>
CallInput(msgs, streamed, ts, c) ==
    [messages |-> msgs, streaming |-> streamed, tools |-> ts,
     reply |-> Reply(<<EnvCandidate(c, EnvContent(c, <<"Text">>, c))>>),
     stream |-> CallStream(c)]
CallInputs(c) ==
    {CallInput(<<CallMessage(c, ChatMessageTypeSystem, 1),
                 CallMessage(c, ChatMessageTypeHuman, 2)>>, s, <<>>, c) : s \in BOOLEAN}
    \cup {CallInput(<<CallMessage(c, ChatMessageTypeHuman, 1),
                      CallMessage(c, ChatMessageTypeAI, 2),
                      CallMessage(c, ChatMessageTypeHuman, 3)>>, TRUE,
                    <<Tool("function", Letters[c], NoParameters)>>, c),
          CallInput(<<CallMessage(c, ChatMessageTypeHuman, 1)>>, TRUE, <<>>, c),
          CallInput(<<CallMessage(c, ChatMessageTypeHuman, 1)>>, FALSE,
                    <<Tool("retrieval", Letters[c], NoParameters)>>, c)}

InitConcurrent ==
    /\ messages = DefaultMessages /\ handler = FALSE /\ streaming = FALSE
    /\ tools = <<>> /\ jsonMode = FALSE /\ mimeType = "" /\ fetchFails = FALSE
    /\ reply = DefaultReply /\ stream = DefaultStream
    /\ CallStart
    /\ SchemaIdle
    /\ \E ins \in [CallIds -> UNION {CallInputs(c) : c \in CallIds}] :
         /\ \A c \in CallIds : ins[c] \in CallInputs(c)
         /\ frames = [c \in CallIds |-> Frame(ins[c])]
    /\ models = [c \in CallIds |-> FreshModel]
    /\ accumulators = [c \in CallIds |-> FreshCandidate]

\* call c has taken the step n, on the model and the accumulator it works on
advance(c, n) ==
    /\ frames' = [frames EXCEPT ![c] = n.frame]
    /\ models' = [models EXCEPT ![modelOf(c)] = n.model]
    /\ accumulators' = [accumulators EXCEPT ![candidateOf(c)] = n.candidate]
    /\ UNCHANGED <<inputVars, callVars, schemaVars>>

callConfigure(c) ==
    /\ frames[c].pc = "configure"
    /\ \E n \in {stepConfigure(frames[c], models[modelOf(c)], accumulators[candidateOf(c)])} :
         advance(c, n)
callTranslate(c) ==
    /\ frames[c].pc = "translate"
    /\ \E n \in {stepTranslate(frames[c], models[modelOf(c)], accumulators[candidateOf(c)])} :
         advance(c, n)
callVendor(c) ==
    /\ frames[c].pc = "call"
    /\ \E n \in {stepCall(frames[c], models[modelOf(c)], accumulators[candidateOf(c)])} :
         advance(c, n)
callStream(c) ==
    /\ frames[c].pc = "stream"
    /\ \E n \in {stepStream(frames[c], models[modelOf(c)], accumulators[candidateOf(c)])} :
         advance(c, n)
callMerge(c) ==
    /\ frames[c].pc = "merge"
    /\ \E n \in {stepMerge(frames[c], models[modelOf(c)], accumulators[candidateOf(c)])} :
         advance(c, n)

NextConcurrent ==
    \E c \in CallIds :
        \/ callConfigure(c)
        \/ callTranslate(c)
        \/ callVendor(c)
        \/ callStream(c)
        \/ callMerge(c)

SpecConcurrent == InitConcurrent /\ [][NextConcurrent]_vars

\* ------------------------------------------- the schema translators on their own
\* Structured schemas: properties p and q, sub-schemas with and without
\* properties, items and required names of their own.
LeafSchemas ==
    {Schema(ty, d, <<>>, NilProperties, NilSchema) : ty \in {"string", "uuid", ""}, d \in {"", "d"}}
NestedSchemas ==
    {Schema("object", "", <<>>, Properties([k \in {"r"} |-> StringSchema]), NilSchema),
     Schema("object", "", <<>>, Properties(EmptyMap), NilSchema),
     Schema("array", "", <<>>, NilProperties, StringSchema),
     Schema("string", "", <<"r">>, NilProperties, NilSchema)}
PropertyMaps ==
    {EmptyMap}
    \cup {[k \in {"p"} |-> sp] : sp \in LeafSchemas \cup NestedSchemas}
    \cup {[k \in {"q"} |-> sq] : sq \in LeafSchemas}
    \cup {[k \in {"p", "q"} |-> IF k = "p" THEN sp ELSE sq] :
            sp \in LeafSchemas \cup NestedSchemas, sq \in LeafSchemas}
Schemas ==
    {Schema(ty, d, req, props, items) :
        ty \in {"object", "array"}, d \in {"", "D"}, req \in {<<>>, <<"p">>, <<"q", "p">>},
        props \in {NilProperties} \cup {Properties(m) : m \in PropertyMaps},
        items \in {NilSchema, StringSchema}}

\* Generic maps, well formed or not
Absent == [t |-> "absent"]
MakeMap(fields) == [k \in {x \in DOMAIN fields : fields[x].t # "absent"} |-> fields[k]]
PropertyValues ==
    {Str("x"),
     MapV(EmptyMap),
     MapV([k \in {"type"} |-> Str("string")]),
     MapV([k \in {"type"} |-> Num("123")]),
     MapV([k \in {"description"} |-> Num("123")]),
     MapV([k \in {"description"} |-> Str("d")]),
     MapV([k \in {"type", "description"} |-> IF k = "type" THEN Str("uuid") ELSE Str("d")])}
GenericPropertyMaps ==
    {EmptyMap}
    \cup {[k \in {"p"} |-> v] : v \in PropertyValues}
    \cup {[k \in {"p", "q"} |-> IF k = "p" THEN vp ELSE vq] :
            vp \in PropertyValues, vq \in PropertyValues}
RequiredValues ==
    {Absent, Strs(<<>>), Strs(<<"q", "p">>), Anys(<<>>), Anys(<<Str("q"), Str("p")>>),
     Anys(<<Str("p"), Num("123")>>), Anys(<<Num("123"), Str("p")>>), Str("not an array")}
GenericMaps ==
    {MakeMap([type |-> ty, description |-> d, properties |-> props, required |-> req]) :
        ty \in {Absent, Str("object"), Str("uuid"), Num("123")},
        d \in {Absent, Str("D"), Num("123")},
        props \in {Absent, Str("x")} \cup {MapV(m) : m \in GenericPropertyMaps},
        req \in RequiredValues}

\* The generic-map form of a structured schema: its JSON object, a key present
\* when the field is set.
RECURSIVE ToMap(_)
ToMap(js) ==
    MakeMap([type |-> IF js.Type = "" THEN Absent ELSE Str(js.Type),
             description |-> IF js.Description = "" THEN Absent ELSE Str(js.Description),
             required |-> IF js.Required = <<>> THEN Absent ELSE Strs(js.Required),
             properties |-> IF js.Properties.isNil THEN Absent
                            ELSE MapV([k \in DOMAIN js.Properties.m |->
                                          MapV(ToMap(js.Properties.m[k]))]),
             items |-> IF js.Items.isNil THEN Absent ELSE MapV(ToMap(js.Items))])

InitSchema ==
    /\ messages = DefaultMessages /\ handler = FALSE /\ streaming = FALSE
    /\ tools = <<>> /\ jsonMode = FALSE /\ mimeType = "" /\ fetchFails = FALSE
    /\ reply = DefaultReply /\ stream = DefaultStream
    /\ CallStart
    /\ \/ jschema \in Schemas /\ params = ToMap(jschema)
       \/ jschema = ObjectSchema /\ params \in GenericMaps
    /\ spc = "start" /\ outStruct = NotTranslated("") /\ outMap = NotTranslated("")
    /\ ConcurrentIdle

\* convertJSONSchemaDefinition applied to jschema
translateStructured ==
    /\ spc = "start"
    /\ outStruct' = convertJSONSchemaDefinition(jschema)
    /\ spc' = "structured"
    /\ UNCHANGED <<inputVars, concurrentVars, callVars, jschema, params, outMap>>

\* convertMapToSchema applied to params
translateMap ==
    /\ spc = "structured"
    /\ \E r \in convertMapToSchema(params) : outMap' = r
    /\ spc' = "done"
    /\ UNCHANGED <<inputVars, concurrentVars, callVars, jschema, params, outStruct>>

NextSchema == translateStructured \/ translateMap

SpecSchema == InitSchema /\ [][NextSchema]_vars

\* ------------------------------------------------------------------- claims
\* the strings of a sequence joined in order
RECURSIVE Concat(_)
Concat(q) == IF q = <<>> THEN "" ELSE Head(q) \o Concat(Tail(q))
\* the function calls among parts, in order, as tool calls
RECURSIVE CallsOf(_)
CallsOf(parts) ==
    IF parts = <<>> THEN <<>>
    ELSE IF Head(parts).kind = "FunctionCall"
         THEN <<ToolCall(Head(parts).val, Marshal(Head(parts).val))>> \o CallsOf(Tail(parts))
         ELSE CallsOf(Tail(parts))
\* the parts of the first n events of the stream, in stream order
RECURSIVE PartsOfEvents(_)
PartsOfEvents(n) ==
    IF n = 0 THEN <<>>
    ELSE PartsOfEvents(n - 1) \o
         (IF Len(stream[n].candidates) = 1 THEN stream[n].candidates[1].Content.Parts ELSE <<>>)
\* a vendor call was made and the function that made it has returned
VendorReturned == vendor # <<>> /\ pc \in {"return", "done"}
\* every event of the stream has one candidate, and that candidate has content
ContentStream ==
    \A i \in 1..Len(stream) :
        /\ ~stream[i].err /\ Len(stream[i].candidates) = 1
        /\ ~stream[i].candidates[1].Content.isNil
KnownParts(parts) == \A j \in 1..Len(parts) : parts[j].kind \in {"Text", "FunctionCall"}

\* messages[i] as the vendor content it translates to
Translation(i) == convertContent(messages[i], fetchFails).content
\* the translations of the messages among the first n that are not System messages
RECURSIVE TurnsBefore(_)
TurnsBefore(n) ==
    IF n = 0 THEN <<>>
    ELSE IF messages[n].Role = ChatMessageTypeSystem THEN TurnsBefore(n - 1)
    ELSE Append(TurnsBefore(n - 1), Translation(n))

\* C1: in a call with n > 1 messages the request sent to the vendor is
\* messages[n-1] whatever its role, the history is the earlier messages without
\* the System ones in their order, and a System message is the system
\* instruction.
C1_RequestIsLastMessage ==
    (Len(messages) > 1 /\ vendor # <<>>) =>
        LET n == Len(messages)
            systems == {i \in 1..n : messages[i].Role = ChatMessageTypeSystem}
        IN  /\ vendor[1].parts = Translation(n).Parts
            /\ vendor[1].history = TurnsBefore(n - 1)
            /\ IF systems = {} THEN vendor[1].system.isNil
               ELSE \E i \in systems : vendor[1].system = Translation(i)

\* C1, where it holds: the request is the last message that is not a System
\* message, the history the other non-System messages in order, and the system
\* instruction the last System message.
C1_RequestIsLastTurn ==
    (Len(messages) > 1 /\ vendor # <<>>) =>
        LET n == Len(messages)
            turns == TurnsBefore(n)
            systems == {i \in 1..n : messages[i].Role = ChatMessageTypeSystem}
        IN  /\ turns # <<>>
            /\ vendor[1].parts = turns[Len(turns)].Parts
            /\ vendor[1].history = SubSeq(turns, 1, Len(turns) - 1)
            /\ IF systems = {} THEN vendor[1].system.isNil
               ELSE vendor[1].system = Translation(CHOOSE i \in systems : \A j \in systems : j <= i)
C1_SystemLast ==
    /\ Len(messages) = 3 /\ vendor # <<>>
    /\ messages[3].Role = ChatMessageTypeSystem
    /\ vendor[1].parts = Translation(2).Parts

\* the content and the tool calls of the one choice a drained stream returns
StreamContent == result.choices[1].Content

Pulled == pos > 0 /\ ~stream[pos].err
Draining == streaming /\ vendor # <<>>

\* C4 as stated: an event with no candidate or one candidate is accepted, and
\* an event with more than one makes the call fail with the stream-shape error.
C4_ZeroOrOneAccepted ==
    (Draining /\ Pulled) =>
        /\ Len(stream[pos].candidates) <= 1 => result # Failure(ErrSingleCandidate)
        /\ Len(stream[pos].candidates) > 1 => result = Failure(ErrSingleCandidate)

\* C4 amended: an event with exactly one candidate is accepted; an event with
\* no candidate or with more than one makes the call fail with the
\* stream-shape error, and nothing else does.
C4_ExactlyOneAccepted ==
    Draining =>
        /\ result = Failure(ErrSingleCandidate) <=>
              (Pulled /\ Len(stream[pos].candidates) # 1)
        /\ \A i \in 1..(pos - 1) : ~stream[i].err /\ Len(stream[i].candidates) = 1
C4_NoCandidateRejected ==
    /\ Draining /\ Pulled /\ pc = "done"
    /\ Len(stream[pos].candidates) = 0
    /\ result = Failure(ErrSingleCandidate)

\* C5: choice i of a merged reply is built from candidate i alone: its content
\* is candidate i's text parts joined in order and its tool calls are exactly
\* candidate i's function calls in order; the choices are in the candidates'
\* order.
C5_ChoicePerCandidate ==
    (~streaming /\ VendorReturned /\ result.kind = "ok") =>
        /\ Len(result.choices) = Len(reply.candidates)
        /\ \A i \in 1..Len(result.choices) :
              /\ result.choices[i].Content = Concat(Texts(reply.candidates[i].Content.Parts))
              /\ result.choices[i].ToolCalls = CallsOf(reply.candidates[i].Content.Parts)
              /\ result.choices[i].StopReason = reply.candidates[i].FinishReason

\* C6: a call with one message that is not a Human message returns an error,
\* and at no point of it is the vendor called or an image fetched.
C6_NonHumanSingleRejected ==
    (Len(messages) = 1 /\ messages[1].Role # ChatMessageTypeHuman) =>
        /\ vendor = <<>>
        /\ fetches = <<>>
        /\ pc \notin {"single", "call", "multi", "chat", "stream", "merge", "return"}
        /\ pc = "done" => result.kind = "error"
C6_ImageNotFetched ==
    /\ pc = "done" /\ Len(messages) = 1
    /\ messages[1].Role = ChatMessageTypeAI
    /\ \E j \in 1..Len(messages[1].Parts) : messages[1].Parts[j].kind = "ImageURLContent"
    /\ result = Failure(ErrWantHuman)

\* the errors the translators of messages, tools and schemas return
TranslationErrors ==
    {ErrRoleNotSupported, ErrWantHuman, ErrDownload, ErrArgumentsJSON, ErrToolType,
     ErrParametersType, ErrTypeString, ErrDescriptionString, ErrNoProperties, ErrValueMap,
     ErrRequiredString, ErrConflictingOptions, ErrUnknownPartInResponse}

\* C7: without a streaming function, on the one-message path and on the chat
\* path, a vendor reply without candidates makes the call return the
\* no-content error, never a response, and that error is none of the
\* translation errors.
C7_NoCandidatesNoContent ==
    (~streaming /\ VendorReturned /\ ~reply.err /\ reply.candidates = <<>>) =>
        /\ result = Failure(ErrNoContentInResponse)
        /\ result.err \notin TranslationErrors
C7_ChatWithoutCandidates ==
    /\ pc = "done" /\ ~streaming /\ reply = EmptyReply
    /\ Len(messages) > 1 /\ vendor # <<>> /\ vendor[1].op = "SendMessage"
    /\ result = Failure(ErrNoContentInResponse)

\* C8 as stated: with a callbacks handler every call, ending in a response or
\* in an error, gives it the start notification once and then the end
\* notification once.
C8_StartAndEndAlways ==
    (handler /\ pc = "done") => notes = <<"start", "end">>

\* C8 amended: with a callbacks handler every call gives it the start
\* notification once, before anything else; a call that returns a response
\* gives it the end notification once, after the start, and a call that ends
\* in an error gives it no end notification.
C8_EndOnlyOnSuccess ==
    /\ handler =>
          notes = CASE pc = "start" -> <<>>
                    [] pc = "done" /\ result.kind = "ok" -> <<"start", "end">>
                    [] OTHER -> <<"start">>
    /\ ~handler => notes = <<>>
C8_ErrorWithoutEnd ==
    /\ handler /\ pc = "done" /\ result.kind = "error" /\ vendor # <<>>
    /\ notes = <<"start">>

\* a schema whose properties carry a type and a description and nothing else
Flat(js) ==
    /\ ~js.Properties.isNil
    /\ js.Items.isNil
    /\ \A k \in DOMAIN js.Properties.m :
          /\ js.Properties.m[k].Required = <<>>
          /\ js.Properties.m[k].Properties.isNil
          /\ js.Properties.m[k].Items.isNil

\* C9 as stated: a structured schema, nested properties and array items
\* included, and its generic-map form translate to the same vendor schema.
C9_FormsAgree ==
    (spc = "done" /\ params = ToMap(jschema)) => outMap = outStruct

\* C9 amended: a structured schema that has a properties mapping, no items of
\* its own, and properties that carry only a type and a description
\* translates to the same vendor schema as its generic-map form. Of any other
\* schema the generic-map form is refused (no properties) or loses what lies
\* below the first level (a property's own properties, items and required
\* names) and the items of the schema.
C9_FlatFormsAgree ==
    (spc = "done" /\ params = ToMap(jschema)) =>
        /\ outStruct.err = ""
        /\ Flat(jschema) => outMap = outStruct
        /\ jschema.Properties.isNil => outMap = NotTranslated(ErrNoProperties)
        /\ (~jschema.Properties.isNil /\ ~Flat(jschema)) =>
              (outMap.err = "" /\ outMap # outStruct)
C9_FlatTranslated ==
    /\ spc = "done" /\ params = ToMap(jschema) /\ Flat(jschema)
    /\ DOMAIN jschema.Properties.m = {"p", "q"}
    /\ jschema.Properties.m["p"].Description = "d"
    /\ jschema.Required = <<"q", "p">>
    /\ outMap.err = "" /\ outMap = outStruct

\* params is well formed but for properties that have no type key
WellFormed(ps) ==
    /\ "type" \in DOMAIN ps => ps["type"].t = "string"
    /\ "description" \in DOMAIN ps => ps["description"].t = "string"
    /\ "properties" \in DOMAIN ps /\ ps["properties"].t = "map[string]any"
    /\ \A k \in DOMAIN ps["properties"].v :
          LET v == ps["properties"].v[k] IN
          /\ v.t = "map[string]any"
          /\ "type" \in DOMAIN v.v => v.v["type"].t = "string"
          /\ "description" \in DOMAIN v.v => v.v["description"].t = "string"
    /\ "required" \in DOMAIN ps =>
          \/ ps["required"].t = "[]string"
          \/ /\ ps["required"].t = "[]interface{}"
             /\ \A i \in 1..Len(ps["required"].v) : ps["required"].v[i].t = "string"

\* C10: a generic map whose properties key is absent or is no mapping is never
\* translated, whatever its other keys hold; and a property without a type key
\* is translated, without error, to a sub-schema of type unspecified.
C10_PropertiesRequired ==
    spc = "done" =>
        /\ ~("properties" \in DOMAIN params /\ params["properties"].t = "map[string]any")
              => outMap.err # ""
        /\ WellFormed(params) =>
              /\ outMap.err = ""
              /\ DOMAIN outMap.schema.Properties.m = DOMAIN params["properties"].v
              /\ \A k \in DOMAIN params["properties"].v :
                    "type" \notin DOMAIN params["properties"].v[k].v =>
                        outMap.schema.Properties.m[k].Type = TypeUnspecified
C10_NoPropertiesKey ==
    /\ spc = "done" /\ DOMAIN params = {"type", "required"}
    /\ params["required"].t = "[]string"
    /\ outMap = NotTranslated(ErrNoProperties)
C10_UntypedProperty ==
    /\ spc = "done" /\ WellFormed(params)
    /\ "p" \in DOMAIN params["properties"].v
    /\ DOMAIN params["properties"].v["p"].v = {"description"}
    /\ outMap.err = ""
    /\ outMap.schema.Properties.m["p"].Type = TypeUnspecified

\* params is well formed in every key but required
WellFormedButRequired(ps) ==
    /\ "type" \in DOMAIN ps => ps["type"].t = "string"
    /\ "description" \in DOMAIN ps => ps["description"].t = "string"
    /\ "properties" \in DOMAIN ps /\ ps["properties"].t = "map[string]any"
    /\ \A k \in DOMAIN ps["properties"].v :
          LET v == ps["properties"].v[k] IN
          /\ v.t = "map[string]any"
          /\ "type" \in DOMAIN v.v => v.v["type"].t = "string"
          /\ "description" \in DOMAIN v.v => v.v["description"].t = "string"
\* required is a sequence of strings, typed or untyped
StringSequence(r) ==
    \/ r.t = "[]string"
    \/ r.t = "[]interface{}" /\ \A i \in 1..Len(r.v) : r.v[i].t = "string"
\* the names such a sequence lists, in its order
NamesOf(r) ==
    IF r.t = "[]string" THEN r.v ELSE [i \in 1..Len(r.v) |-> r.v[i].v]

\* C11: in a generic map, required given as a sequence of strings, typed or
\* untyped, is translated to the list of its names in their order, the same
\* list for both forms; a required value that holds an element that is no
\* string, or that is no sequence, is never translated, and in a map that is
\* well formed otherwise the error is the one about required.
C11_RequiredForms ==
    (spc = "done" /\ "required" \in DOMAIN params) =>
        LET r == params["required"] IN
        /\ (StringSequence(r) /\ WellFormedButRequired(params)) =>
              (outMap.err = "" /\ outMap.schema.Required = NamesOf(r))
        /\ ~StringSequence(r) => outMap.err # ""
        /\ (~StringSequence(r) /\ WellFormedButRequired(params)) =>
              outMap = NotTranslated(ErrRequiredString)
C11_UntypedRequired ==
    /\ spc = "done" /\ "required" \in DOMAIN params
    /\ params["required"] = Anys(<<Str("q"), Str("p")>>)
    /\ outMap.err = "" /\ outMap.schema.Required = <<"q", "p">>
C11_NonStringElement ==
    /\ spc = "done" /\ "required" \in DOMAIN params
    /\ params["required"] = Anys(<<Str("p"), Num("123")>>)
    /\ outMap = NotTranslated(ErrRequiredString)

\* the call options under which the model is always configured
PlainOptions == tools = <<>> /\ ~(jsonMode /\ mimeType # "")
\* the chat path has gone through its loop over the messages
ChatTranslated ==
    /\ Len(messages) # 1 /\ PlainOptions
    /\ pc \in {"chat", "stream", "merge", "return", "done"}
\* the vendor role the role mapping names for a role; "" for a role it refuses
VendorRoleOf(role) ==
    CASE role = ChatMessageTypeSystem -> RoleSystem
      [] role = ChatMessageTypeAI -> RoleModel
      [] role \in {ChatMessageTypeHuman, ChatMessageTypeGeneric, ChatMessageTypeTool} -> RoleUser
      [] OTHER -> ""
\* the vendor roles of the messages that are no System messages, in order
RECURSIVE TurnRoles(_)
TurnRoles(msgs) ==
    IF msgs = <<>> THEN <<>>
    ELSE IF Head(msgs).Role = ChatMessageTypeSystem THEN TurnRoles(Tail(msgs))
    ELSE <<VendorRoleOf(Head(msgs).Role)>> \o TurnRoles(Tail(msgs))
RolesOf(contents) == [i \in 1..Len(contents) |-> contents[i].Role]

\* C12: in a chat the messages are translated in order. The first message whose
\* parts cannot be translated, or whose role is Function or unknown, ends the
\* call with an error, the "role not supported" error for the role, and nothing
\* is sent to the vendor. Otherwise System becomes the system role (of the
\* system instruction), AI the model role, and Human, Generic and Tool the
\* user role.
C12_RolesMapped ==
    ChatTranslated =>
        LET n == Len(messages)
            partsErr(i) == convertParts(messages[i].Parts, fetchFails).err
            bad == {i \in 1..n : partsErr(i) # "" \/ VendorRoleOf(messages[i].Role) = ""}
        IN  IF bad # {}
            THEN LET f == CHOOSE i \in bad : \A j \in bad : i <= j IN
                 /\ vendor = <<>> /\ session = NoSession
                 /\ result = IF partsErr(f) # "" THEN Failure(partsErr(f))
                              ELSE Failure(ErrRoleNotSupported)
            ELSE /\ (\E i \in 1..n : messages[i].Role = ChatMessageTypeSystem)
                        => model.SystemInstruction.Role = RoleSystem
                 /\ result # Panic =>
                        RolesOf(session.history) \o <<session.request.Role>>
                            = TurnRoles(messages)
C12_FunctionRejected ==
    /\ pc = "done" /\ Len(messages) = 3
    /\ messages[1].Role = ChatMessageTypeHuman
    /\ messages[2].Role = ChatMessageTypeFunction
    /\ result = Failure(ErrRoleNotSupported) /\ vendor = <<>>
C12_MappedChat ==
    /\ pc = "done" /\ Len(messages) = 3 /\ result.kind = "ok"
    /\ messages[1].Role = ChatMessageTypeGeneric
    /\ messages[2].Role = ChatMessageTypeAI
    /\ messages[3].Role = ChatMessageTypeTool
    /\ RolesOf(vendor[1].history) = <<RoleUser, RoleModel>>
    /\ session.request.Role = RoleUser

\* a tool convertTools can translate: a function whose parameters are absent,
\* a structured schema, or a well-formed generic map
ToolTranslatable(t) ==
    /\ t.Type = "function"
    /\ \/ t.Parameters.form \in {"nil", "*jsonschema.Schema"}
       \/ t.Parameters.form = "map[string]any" /\ WellFormed(t.Parameters.v)
ToolsFail == \E i \in 1..Len(tools) : ~ToolTranslatable(tools[i])
OptionsConflict == jsonMode /\ mimeType # ""
ToolErrors ==
    {ErrToolType, ErrParametersType, ErrTypeString, ErrDescriptionString, ErrNoProperties,
     ErrValueMap, ErrRequiredString}

\* C13: when a tool of the list cannot be translated, or JSONMode is set
\* together with a non-empty ResponseMIMEType, the call ends with an error
\* right after the model is configured: no message is translated, no image is
\* fetched and nothing is sent to the vendor, in blocking or in streaming mode.
C13_BadOptionsNoVendorCall ==
    ((ToolsFail \/ OptionsConflict) /\ pc \notin {"start", "configure"}) =>
        /\ pc = "done"
        /\ result.kind = "error"
        /\ ToolsFail => result.err \in ToolErrors
        /\ ~ToolsFail => result = Failure(ErrConflictingOptions)
        /\ vendor = <<>> /\ fetches = <<>> /\ session = NoSession
        /\ pos = 0 /\ cbLog = <<>>
C13_ConflictRejected ==
    /\ pc = "done" /\ jsonMode /\ mimeType = "text/plain" /\ streaming
    /\ Len(tools) = 1 /\ ToolTranslatable(tools[1])
    /\ result = Failure(ErrConflictingOptions) /\ vendor = <<>>
C13_SecondToolRejected ==
    /\ pc = "done" /\ Len(tools) = 2 /\ ToolTranslatable(tools[1])
    /\ result = Failure(ErrToolType) /\ vendor = <<>>

\* a call run alone, from a frame to its return, on a model and an
\* accumulator no other call touches
RECURSIVE RunAlone(_, _, _)
RunAlone(f, m, cand) ==
    IF f.pc = "done" THEN f
    ELSE LET n == callStep(f, m, cand) IN RunAlone(n.frame, n.model, n.candidate)
Alone(c) == RunAlone(Frame(frames[c].in), FreshModel, FreshCandidate)

\* C14: under every interleaving of the calls on one adapter, what a call
\* returns, what it sends to the vendor (request, history, system instruction
\* and tools of its model) and what it hands to its streaming function are
\* what they are when the call runs alone.
C14_CallsIsolated ==
    \A c \in DOMAIN frames :
        frames[c].pc = "done" =>
            /\ frames[c].result = Alone(c).result
            /\ frames[c].seen = Alone(c).seen
            /\ frames[c].cbLog = Alone(c).cbLog
C14_InterleavedCalls ==
    /\ DOMAIN frames = CallIds
    /\ frames[1].pc = "call" /\ frames[1].in.streaming
    /\ ~models[1].SystemInstruction.isNil
    /\ frames[2].pc = "stream" /\ frames[2].pos = 1
    /\ Len(frames[2].in.messages) = 3
    /\ models[2].SystemInstruction.isNil /\ models[2].Tools # <<>>
C14_BothReturned ==
    /\ DOMAIN frames = CallIds
    /\ \A c \in CallIds : frames[c].pc = "done" /\ frames[c].in.streaming
    /\ frames[1].result.kind = "ok" /\ frames[1].result.choices[1].Content = "AB"
    /\ frames[2].result.kind = "ok" /\ frames[2].result.choices[1].Content = "CD"
    /\ ~frames[1].seen[1].call.system.isNil
    /\ frames[2].seen[1].call.system.isNil

\* the events pulled so far that bear content: pulled without error, with one
\* candidate, and that candidate with content
ContentBearing(i) ==
    /\ ~stream[i].err /\ Len(stream[i].candidates) = 1
    /\ ~stream[i].candidates[1].Content.isNil
Accumulated == {i \in 1..pos : ContentBearing(i)}
RECURSIVE TokensOf(_)
TokensOf(S) ==
    IF S = {} THEN 0
    ELSE LET i == CHOOSE i \in S : TRUE
         IN  stream[i].candidates[1].TokenCount + TokensOf(S \ {i})
RECURSIVE PartsOf(_, _)
PartsOf(S, n) ==
    IF n = 0 THEN <<>>
    ELSE PartsOf(S, n - 1) \o (IF n \in S THEN stream[n].candidates[1].Content.Parts ELSE <<>>)

\* C15: at every point of a drain the accumulator holds the parts of the
\* content-bearing events pulled so far, in stream order, and the sum of their
\* token counts; its role, finish reason, safety ratings and citation metadata
\* are those of the last of them.
C15_AccumulatorLastWriteWins ==
    (Draining /\ pc \in {"stream", "merge", "return", "done"}) =>
        /\ candidate.Content.Parts = PartsOf(Accumulated, pos)
        /\ candidate.TokenCount = TokensOf(Accumulated)
        /\ Accumulated # {} =>
              LET last == stream[CHOOSE i \in Accumulated : \A j \in Accumulated : j <= i]
                              .candidates[1]
              IN  /\ candidate.Content.Role = last.Content.Role
                  /\ candidate.FinishReason = last.FinishReason
                  /\ candidate.SafetyRatings = last.SafetyRatings
                  /\ candidate.CitationMetadata = last.CitationMetadata
C15_ThreeEventsAccumulated ==
    /\ Draining /\ pc = "done" /\ pos = 3 /\ Accumulated = {1, 2, 3}
    /\ candidate.TokenCount = 6
    /\ candidate.FinishReason = <<"finish", 3>>
    /\ candidate.Content.Role = <<"role", 3>>
    /\ Len(candidate.Content.Parts) = 3

\* the last event pulled has one candidate, and that candidate has no content
NilContentPulled ==
    /\ Draining /\ Pulled
    /\ Len(stream[pos].candidates) = 1
    /\ stream[pos].candidates[1].Content.isNil

C17_RequestAlwaysDefined ==
    (Len(messages) # 1 /\ pc = "done") => result.kind \in {"ok", "error"}

\* C18: when a streamed call returns a choice, its content is the chunks handed
\* to the streaming function, joined in order: no text is in the result that
\* the streaming function was not given.
C18_ResultIsWhatWasStreamed ==
    (streaming /\ VendorReturned /\ result.kind = "ok") =>
        StreamContent = Concat(cbLog)

====
